---- MODULE Spec2Model ----
(***************************************************************************)
(* The authenticated-request execution layer of the PayPal client:         *)
(* PayPalClient.SendWithAuth, GetAccessToken, SendWithBasicAuth, Send and  *)
(* ExecuteApprovedAgreement, run by concurrent goroutines on one shared    *)
(* client.  Every step is one access to the shared client (its mutex, its  *)
(* Token, its tokenExpiresAt) or one end of an HTTP exchange.  The         *)
(* transport (Send with its three kinds of destination, SendWithBasicAuth, *)
(* SetReturnRepresentation) and the construction of clients (newPayPal     *)
(* with its session cache) are stepped through on their own.               *)
(***************************************************************************)
EXTENDS Integers, FiniteSets, Sequences, TLC

\* ---------------------------------------------------------------- bounds
NCallers == 2
MaxCalls == 2
MaxTicks == 1
MaxSends == 2
MaxNews == 2

\* ------------------------------------------------------- program constants
\* RequestNewTokenBeforeExpiresIn = time.Duration(60) * time.Second, in seconds
RequestNewTokenBeforeExpiresIn == 60

\* the wall clock of the first step, in seconds; time.Now() is never the zero time
StartTime == 1

\* the zero value of time.Time (tokenExpiresAt before any token is stored)
ZeroTime == 0

\* time.Time.Sub saturates at the minimum Duration when the receiver is the
\* zero time (year 1) and the argument is the present; the minimum Duration
\* stands here as the smallest 32-bit integer, far below any threshold
MinDuration == -2147483647

Callers == 1..NCallers

\* seconds the clock may advance in one step
TickSteps == {60, 61}

\* expires_in values the token endpoint may answer with
ExpiresIns == {1, 120}

\* access_token values the token endpoint may answer with; 0 is ""
AccessTokens == {0, 1, 2}

\* HTTP status codes the provider may answer with
StatusCodes == {199, 200, 299, 300, 401}

VARIABLES
    Token,           \* c.Token: the stored *TokenResponse, or the nil pointer
    tokenExpiresAt,  \* c.tokenExpiresAt
    mu,              \* the embedded sync.Mutex: 0 unlocked, else the goroutine holding it
    now,             \* time.Now()
    ticks,           \* clock steps taken
    calls,           \* public calls started
    pc,              \* each goroutine's position
    op,              \* the public operation each goroutine is running
    hdr,             \* Authorization header of each goroutine's business request
    response,        \* GetAccessToken's local `response`
    err,             \* GetAccessToken's local `err`
    ret,             \* what the goroutine's last public call returned
    wire,            \* HTTP requests in flight
    obs              \* per goroutine, what its current (or last) call observed and did

VARIABLES
    returnRepresentation,  \* c.returnRepresentation
    spc,             \* position of the goroutine that calls the transport directly
    sop,             \* the transport method it entered: Send or SendWithBasicAuth
    sreq,            \* req: the headers of the request it passed
    sdest,           \* v: the destination it passed
    sresp,           \* what c.Client.Do returned
    sret,            \* what the transport method returned
    sends,           \* transport calls started
    sobs             \* what the transport call observed and did

VARIABLES
    payPalClientSessionMapping,  \* the session cache: fingerprint -> *PayPalClient
    npc,             \* position of the goroutine that calls newPayPal
    config,          \* the *PayPal configuration it passed
    nret,            \* how its last newPayPal call ended
    news,            \* newPayPal calls started
    results          \* how the newPayPal calls so far ended, in order

\* the client and the goroutines making authenticated calls on it
authVars == <<Token, tokenExpiresAt, mu, now, ticks, calls, pc, op, hdr, response,
              err, ret, wire, obs>>

\* the goroutine using the transport directly
sendVars == <<returnRepresentation, spc, sop, sreq, sdest, sresp, sret, sends, sobs>>

\* the construction of clients
cacheVars == <<payPalClientSessionMapping, npc, config, nret, news, results>>

vars == <<Token, tokenExpiresAt, mu, now, ticks, calls, pc, op, hdr, response,
          err, ret, wire, obs, returnRepresentation, spc, sop, sreq, sdest, sresp,
          sret, sends, sobs, payPalClientSessionMapping, npc, config, nret, news,
          results>>

\* ------------------------------------------------------------ data shapes
\* a *TokenResponse; nil = TRUE is the nil pointer
NilToken == [nil |-> TRUE, Token |-> 0, ExpiresIn |-> 0]

\* no Authorization header
NoAuth == [scheme |-> "", cred |-> 0]

\* "Bearer "+token
Bearer(t) == [scheme |-> "Bearer", cred |-> t]

\* req.SetBasicAuth(c.ClientID, c.Secret)
BasicAuth == [scheme |-> "Basic", cred |-> 0]

\* response bodies: json says how encoding/json fares on the body
Bodies ==
    [json : {"valid", "mismatch"}, access_token : AccessTokens,
     expires_in : ExpiresIns, id : {0, 1}]
    \cup [json : {"syntax"}, access_token : {0}, expires_in : {0}, id : {0}]

\* what c.Client.Do can come back with: an error of the transport, or a response
Responses ==
    [kind : {"transport"}, status : {0}, body : [json : {"syntax"}, access_token : {0},
                                                  expires_in : {0}, id : {0}]]
    \cup [kind : {"http"}, status : StatusCodes, body : Bodies]

\* what the token endpoint can answer: the id plays no part in a TokenResponse
TokenResponses == {r \in Responses : r.body.id = 0}

\* what a business endpoint can answer: a body with an id, or a broken one
BusinessResponses ==
    {r \in Responses : r.body.access_token = 0 /\ r.body.expires_in \in {0, 1}}

\* ------------------------------------------------------------ pure parts
\* json.NewDecoder(resp.Body).Decode(v) into a struct with the fields
\* access_token, expires_in (int64) and id.  A malformed body is a
\* SyntaxError before any field is written; a value of
\* the wrong type for expires_in is skipped, the other fields are still
\* written, and the UnmarshalTypeError is returned at the end.
Decode(body, v) ==
    CASE body.json = "syntax"   -> [err |-> "SyntaxError", v |-> v]
      [] body.json = "mismatch" ->
            [err |-> "UnmarshalTypeError",
             v |-> [v EXCEPT !.Token = body.access_token, !.id = body.id]]
      [] OTHER ->
            [err |-> "nil",
             v |-> [v EXCEPT !.Token = body.access_token,
                             !.ExpiresIn = body.expires_in, !.id = body.id]]

\* PayPalClient.Send after c.Client.Do returned resp: the error it returns and
\* the destination as it leaves it
Send(resp, v) ==
    IF resp.kind = "transport" THEN [err |-> "transport", v |-> v]
    ELSE IF resp.status < 200 \/ resp.status > 299
         THEN [err |-> "ErrorResponse", v |-> v]
         ELSE Decode(resp.body, v)

\* t.Sub(u) in seconds
Sub(t, u) == IF t = ZeroTime THEN MinDuration ELSE t - u

\* a destination struct, zero valued (response := &TokenResponse{}); the
\* access_token "" and the id "" are 0
ZeroDest == [Token |-> 0, ExpiresIn |-> 0, id |-> 0]

\* c.Token = response: the pointer to a decoded TokenResponse
Ptr(v) == [nil |-> FALSE, Token |-> v.Token, ExpiresIn |-> v.ExpiresIn]

\* what a goroutine has observed of its call so far
NoObs ==
    [nilAtCheck |-> FALSE,  \* line 67 found c.Token nil
     checked    |-> FALSE,  \* line 68 was evaluated
     rem        |-> 0,      \* tokenExpiresAt.Sub(time.Now()) as line 68 read it
     checkTime  |-> 0,      \* time.Now() at line 68
     refreshes  |-> 0,      \* token requests this call issued
     behind     |-> 0,      \* the goroutine whose refresh was in flight when this call started
     behindDone |-> FALSE,  \* that refresh has returned
     behindOk   |-> FALSE,  \* it returned a nil error and stored a token
     behindExp  |-> ZeroTime,   \* tokenExpiresAt as it left it
     preToken   |-> NilToken,   \* Token when this call's refresh was issued
     preExpires |-> ZeroTime,   \* tokenExpiresAt when this call's refresh was issued
     gatDone    |-> FALSE,  \* this call's refresh has returned
     gatErr     |-> "nil",  \* the error it returned
     gatToken   |-> 0,      \* the access_token it decoded
     unlocked   |-> FALSE,  \* line 81 released the mutex
     tokAtUnlock |-> NilToken,  \* Token when line 81 released the mutex
     bizSent    |-> 0]      \* business requests this call issued

\* ------------------------------------------------- the transport's data
\* bodies a provider may answer a business or identity request with: a JSON
\* object with an id and the members of an error payload (0 is "", or no
\* details; details 1 is one field-level issue), or a body that is no such
\* object.  "mismatch" is an object one of whose members has a JSON type the
\* destination's field cannot take (expires_in for a TokenResponse, details
\* for an ErrorResponse); "unreadable" is a body whose read fails part-way.
Payloads ==
    [json : {"valid", "mismatch"}, access_token : {0}, expires_in : {0}, id : {0, 1},
     name : {0, 1}, message : {0, 1}, details : {0, 1}]
    \cup [json : {"syntax", "empty", "unreadable"}, access_token : {0},
          expires_in : {0}, id : {0}, name : {0}, message : {0}, details : {0}]

\* what c.Client.Do can come back with when Send is called directly
TransportResponses ==
    [kind : {"transport"}, status : {0},
     body : [json : {"syntax"}, access_token : {0}, expires_in : {0}, id : {0},
             name : {0}, message : {0}, details : {0}]]
    \cup [kind : {"http"}, status : StatusCodes, body : Payloads]

\* nothing attached, nothing written
NoValue == [none |-> TRUE]

\* the destinations v a caller passes to Send: nil, an io.Writer (written is
\* what has been written to it), or a pointer to a struct to decode into
Dests ==
    {[kind |-> k, val |-> ZeroDest, written |-> NoValue] :
        k \in {"nil", "io.Writer", "struct"}}

\* no destination
NoDest == [kind |-> "nil", val |-> ZeroDest, written |-> NoValue]

\* the values of a requestID argument; 0 is ""
RequestIDs == {0, 1, 2}

\* the headers of the requests callers pass: Prefer already added by the
\* endpoint method or not, an Authorization header already set or not;
\* requestId is the PayPal-Request-Id header, 0 when the request has none
Requests == [prefer : BOOLEAN, auth : {NoAuth, Bearer(1)}, requestId : {0}]

\* a request with no headers
NoRequest == [prefer |-> FALSE, auth |-> NoAuth, requestId |-> 0]

\* no response
NoResponse ==
    [kind |-> "transport", status |-> 0,
     body |-> [json |-> "syntax", access_token |-> 0, expires_in |-> 0, id |-> 0,
               name |-> 0, message |-> 0, details |-> 0]]

\* no error: the nil error value, with nothing attached
NilError == [err |-> "nil", e |-> NoValue]

\* errResp := &ErrorResponse{Response: resp}, then json.Unmarshal(data, errResp)
\* when the body was read and is not empty; the error of Unmarshal is dropped
ErrResp(resp) ==
    LET b == resp.body
        parsed == b.json \in {"valid", "mismatch"}
    IN  [Response |-> resp,
         Name     |-> IF parsed THEN b.name ELSE 0,
         Message  |-> IF parsed THEN b.message ELSE 0,
         Details  |-> IF b.json = "valid" THEN b.details ELSE 0]

\* json.NewDecoder(resp.Body).Decode(v) on any body: an empty body is io.EOF,
\* a body whose read fails is the error of the read
DecodeStream(body, v) ==
    CASE body.json = "empty"      -> [err |-> "io.EOF", v |-> v]
      [] body.json = "unreadable" -> [err |-> "read", v |-> v]
      [] OTHER                    -> Decode(body, v)

\* io.Copy(w, resp.Body): what w holds afterwards, the whole body or, when
\* the read fails part-way, a part of it; the error of Copy is dropped
Copy(body) == [whole |-> body.json # "unreadable", of |-> body]

\* Send returning the failure to read or parse the body of an error response
SendTo_ReturnsBodyError(resp, d) ==
    IF resp.kind = "transport"
    THEN [err |-> "transport", e |-> resp, d |-> d, read |-> FALSE]
    ELSE IF resp.status < 200 \/ resp.status > 299
    THEN IF resp.body.json = "valid"
         THEN [err |-> "ErrorResponse", e |-> ErrResp(resp), d |-> d, read |-> TRUE]
         ELSE [err |-> DecodeStream(resp.body, d.val).err, e |-> NoValue, d |-> d,
               read |-> TRUE]
    ELSE IF d.kind = "nil"
    THEN [err |-> "nil", e |-> NoValue, d |-> d, read |-> FALSE]
    ELSE IF d.kind = "io.Writer"
    THEN [err |-> "nil", e |-> NoValue, d |-> [d EXCEPT !.written = Copy(resp.body)],
          read |-> TRUE]
    ELSE LET s == DecodeStream(resp.body, d.val)
         IN  [err |-> s.err, e |-> NoValue, d |-> [d EXCEPT !.val = s.v],
              read |-> TRUE]

\* the body closed on the success paths only
BodyCloses_NotOnError(resp) ==
    IF resp.kind = "http" /\ resp.status >= 200 /\ resp.status <= 299 THEN 1 ELSE 0

\* defer resp.Body.Close(), registered once c.Client.Do returned no error:
\* the calls of Close made by the time Send returns
BodyCloses(resp) == IF resp.kind = "transport" THEN 0 ELSE 1

\* Send taking every status below 300 for a success
SendTo_Below300(resp, d) ==
    IF resp.kind = "transport"
    THEN [err |-> "transport", e |-> resp, d |-> d, read |-> FALSE]
    ELSE IF resp.status > 299
    THEN [err |-> "ErrorResponse", e |-> ErrResp(resp), d |-> d, read |-> TRUE]
    ELSE [err |-> "nil", e |-> NoValue, d |-> d, read |-> FALSE]

\* Send wrapping the error of the transport into an ErrorResponse
SendTo_WrapTransport(resp, d) ==
    IF resp.kind = "transport" \/ resp.status < 200 \/ resp.status > 299
    THEN [err |-> "ErrorResponse", e |-> ErrResp(resp), d |-> d, read |-> TRUE]
    ELSE [err |-> "nil", e |-> NoValue, d |-> d, read |-> FALSE]

\* PayPalClient.Send after c.Client.Do returned resp, for a destination d of
\* any kind: the error returned (err its kind, e its value), the destination
\* as Send leaves it, and whether resp.Body was read
SendTo(resp, d) ==
    IF resp.kind = "transport"
    THEN [err |-> "transport", e |-> resp, d |-> d, read |-> FALSE]
    ELSE IF resp.status < 200 \/ resp.status > 299
    THEN [err |-> "ErrorResponse", e |-> ErrResp(resp), d |-> d, read |-> TRUE]
    ELSE IF d.kind = "nil"
    THEN [err |-> "nil", e |-> NoValue, d |-> d, read |-> FALSE]
    ELSE IF d.kind = "io.Writer"
    THEN [err |-> "nil", e |-> NoValue, d |-> [d EXCEPT !.written = Copy(resp.body)],
          read |-> TRUE]
    ELSE LET s == IF resp.body.json \in {"empty", "unreadable"}
                  THEN DecodeStream(resp.body, d.val)
                  ELSE Send(resp, d.val)
         IN  [err |-> s.err, e |-> NoValue, d |-> [d EXCEPT !.val = s.v],
              read |-> TRUE]

\* what the goroutine using the transport has observed of its call so far
NoSObs ==
    [callerPrefer |-> FALSE,   \* the request came with a Prefer header
     callerAuth |-> NoAuth,    \* the Authorization header the request came with
     requestID  |-> 0,         \* the requestID argument of the endpoint method
     closed     |-> 0,         \* calls of resp.Body.Close()
     flagAtHeaders |-> FALSE,  \* c.returnRepresentation as line 37 read it
     flagAtDo   |-> FALSE,     \* c.returnRepresentation when c.Client.Do was called
     doCount    |-> 0,         \* calls of c.Client.Do
     sent       |-> NoRequest, \* the headers of the request c.Client.Do was given
     destBefore |-> NoDest,    \* the destination as the caller passed it
     read       |-> FALSE]     \* resp.Body was read

\* no goroutine is inside the transport, no request was ever made verbose
SendIdle ==
    /\ returnRepresentation = FALSE
    /\ spc = "idle"
    /\ sop = "none"
    /\ sreq = NoRequest
    /\ sdest = NoDest
    /\ sresp = NoResponse
    /\ sret = NilError
    /\ sends = 0
    /\ sobs = NoSObs

\* ------------------------------------------------ the construction's data
\* values of the configuration's fields; 0 is ""
FieldValues == {0, 1, 2}

\* the *PayPal configurations a caller may pass
Configs == [ClientID : FieldValues, SecretID : FieldValues, APIBase : FieldValues]

\* no configuration
NoConfig == [ClientID |-> 0, SecretID |-> 0, APIBase |-> 0]

\* hasher.SHA1(string(configAsJSON)): json.Marshal writes the three fields in
\* order, and distinct serializations have distinct hashes
Fingerprint(c) == <<"sha1", c.ClientID, c.SecretID, c.APIBase>>

\* var payPalClientSessionMapping = make(map[string]*PayPalClient), no
\* newPayPal call under way
CacheIdle ==
    /\ payPalClientSessionMapping = <<>>
    /\ npc = "idle"
    /\ config = NoConfig
    /\ nret = "none"
    /\ news = 0
    /\ results = <<>>

\* ----------------------------------------------------------------- Init
\* The client as the application starts using it: newly constructed, or
\* after one GetAccessToken call made at start-up answered with a token.
Init ==
    /\ \/ Token = NilToken /\ tokenExpiresAt = ZeroTime
       \/ \E e \in ExpiresIns :
             /\ Token = [nil |-> FALSE, Token |-> 1, ExpiresIn |-> e]
             /\ tokenExpiresAt = StartTime + e
    /\ mu = 0
    /\ now = StartTime
    /\ ticks = 0
    /\ calls = 0
    /\ pc = [p \in Callers |-> "idle"]
    /\ op = [p \in Callers |-> "none"]
    /\ hdr = [p \in Callers |-> NoAuth]
    /\ response = [p \in Callers |-> ZeroDest]
    /\ err = [p \in Callers |-> "nil"]
    /\ ret = [p \in Callers |-> "none"]
    /\ wire = {}
    /\ obs = [p \in Callers |-> NoObs]
    /\ SendIdle
    /\ CacheIdle

\* ------------------------------------------------------------ the clock
\* a goroutine is about to call time.Now() (lines 68 and 155)
ReadsClock(p) == pc[p] \in {"swa_l68", "gat_l155"}

\* Time passes between two steps of the program.  The program sees the clock
\* only through time.Now(), so the time that passed is accounted for when a
\* goroutine is about to read it.
Tick(d) ==
    /\ ticks < MaxTicks
    /\ \E p \in Callers : ReadsClock(p)
    /\ now' = now + d
    /\ ticks' = ticks + 1
    /\ UNCHANGED <<Token, tokenExpiresAt, mu, calls, pc, op, hdr, response, err,
                   ret, wire, obs>>

\* the goroutine whose SendWithAuth has a refresh in flight, 0 if none
InFlightRefresh ==
    IF \E q \in Callers : pc[q] = "gat_wait" /\ op[q] # "GetAccessToken"
    THEN CHOOSE q \in Callers : pc[q] = "gat_wait" /\ op[q] # "GetAccessToken"
    ELSE 0

\* a goroutine enters a public method
Enter(p, name, at, h) ==
    /\ pc[p] = "idle"
    /\ calls < MaxCalls
    /\ calls' = calls + 1
    /\ pc' = [pc EXCEPT ![p] = at]
    /\ op' = [op EXCEPT ![p] = name]
    /\ hdr' = [hdr EXCEPT ![p] = h]
    /\ response' = [response EXCEPT ![p] = ZeroDest]
    /\ err' = [err EXCEPT ![p] = "nil"]
    /\ ret' = [ret EXCEPT ![p] = "none"]
    /\ obs' = [obs EXCEPT ![p] = [NoObs EXCEPT !.behind = InFlightRefresh]]
    /\ UNCHANGED <<Token, tokenExpiresAt, mu, now, ticks, wire>>

\* ------------------------------------------------------------ SendWithAuth
\* an endpoint method built its request and calls c.SendWithAuth(req, v)
StartSendWithAuth(p) == Enter(p, "SendWithAuth", "swa_l63", NoAuth)

\* c.Lock() taking the mutex whether or not it is held
SWA_Lock_NoExclusion(p) ==
    /\ pc[p] = "swa_l63"
    /\ mu' = p
    /\ pc' = [pc EXCEPT ![p] = "swa_l67"]
    /\ UNCHANGED <<Token, tokenExpiresAt, now, ticks, calls, op, hdr, response, err,
                   ret, wire, obs>>

\* c.Lock()
SWA_Lock(p) ==
    /\ pc[p] = "swa_l63"
    /\ mu = 0
    /\ mu' = p
    /\ pc' = [pc EXCEPT ![p] = "swa_l67"]
    /\ UNCHANGED <<Token, tokenExpiresAt, now, ticks, calls, op, hdr, response, err,
                   ret, wire, obs>>

\* a nil c.Token sending the call to GetAccessToken
SWA_CheckToken_Acquire(p) ==
    /\ pc[p] = "swa_l67"
    /\ pc' = [pc EXCEPT ![p] = IF Token.nil THEN "gat_l150" ELSE "swa_l68"]
    /\ obs' = [obs EXCEPT ![p].nilAtCheck = Token.nil]
    /\ UNCHANGED <<Token, tokenExpiresAt, mu, now, ticks, calls, op, hdr, response,
                   err, ret, wire>>

\* if c.Token != nil
SWA_CheckToken(p) ==
    /\ pc[p] = "swa_l67"
    /\ pc' = [pc EXCEPT ![p] = IF Token.nil THEN "swa_l81" ELSE "swa_l68"]
    /\ obs' = [obs EXCEPT ![p].nilAtCheck = Token.nil]
    /\ UNCHANGED <<Token, tokenExpiresAt, mu, now, ticks, calls, op, hdr, response,
                   err, ret, wire>>

\* the refresh condition with the threshold left out: only an expired token
NeedsRefresh_ExpiredOnly(expiresAt, t) ==
    expiresAt # ZeroTime /\ Sub(expiresAt, t) < 0

\* the refresh condition with the operands of Sub exchanged
NeedsRefresh_Swapped(expiresAt, t) ==
    expiresAt # ZeroTime /\ Sub(t, expiresAt) < RequestNewTokenBeforeExpiresIn

\* if !c.tokenExpiresAt.IsZero() && c.tokenExpiresAt.Sub(time.Now()) < RequestNewTokenBeforeExpiresIn
NeedsRefresh(expiresAt, t) ==
    expiresAt # ZeroTime /\ Sub(expiresAt, t) < RequestNewTokenBeforeExpiresIn

SWA_CheckExpiry(p) ==
    /\ pc[p] = "swa_l68"
    /\ pc' = [pc EXCEPT ![p] = IF NeedsRefresh(tokenExpiresAt, now)
                               THEN "gat_l150" ELSE "swa_l76"]
    /\ obs' = [obs EXCEPT ![p].checked = TRUE,
                          ![p].rem = Sub(tokenExpiresAt, now),
                          ![p].checkTime = now]
    /\ UNCHANGED <<Token, tokenExpiresAt, mu, now, ticks, calls, op, hdr, response,
                   err, ret, wire>>

\* the header built from the token read before the refresh
SWA_SetHeader_Stale(p) ==
    /\ pc[p] = "swa_l76"
    /\ hdr' = [hdr EXCEPT ![p] = Bearer(IF obs[p].refreshes > 0
                                        THEN obs[p].preToken.Token ELSE Token.Token)]
    /\ pc' = [pc EXCEPT ![p] = "swa_l81"]
    /\ UNCHANGED <<Token, tokenExpiresAt, mu, now, ticks, calls, op, response, err,
                   ret, wire, obs>>

\* req.Header.Set("Authorization", "Bearer "+c.Token.Token)
SWA_SetHeader(p) ==
    /\ pc[p] = "swa_l76"
    /\ hdr' = [hdr EXCEPT ![p] = Bearer(Token.Token)]
    /\ pc' = [pc EXCEPT ![p] = "swa_l81"]
    /\ UNCHANGED <<Token, tokenExpiresAt, mu, now, ticks, calls, op, response, err,
                   ret, wire, obs>>

\* the mutex kept across c.Send, as `defer c.Unlock()` would
SWA_Unlock_Deferred(p) ==
    /\ pc[p] = "swa_l81"
    /\ mu' = mu
    /\ pc' = [pc EXCEPT ![p] = "send_l41"]
    /\ obs' = [obs EXCEPT ![p].unlocked = TRUE, ![p].tokAtUnlock = Token]
    /\ UNCHANGED <<Token, tokenExpiresAt, now, ticks, calls, op, hdr, response, err,
                   ret, wire>>

\* c.Unlock() before return c.Send(req, v)
SWA_Unlock(p) ==
    /\ pc[p] = "swa_l81"
    /\ mu' = 0
    /\ pc' = [pc EXCEPT ![p] = "send_l41"]
    /\ obs' = [obs EXCEPT ![p].unlocked = TRUE, ![p].tokAtUnlock = Token]
    /\ UNCHANGED <<Token, tokenExpiresAt, now, ticks, calls, op, hdr, response, err,
                   ret, wire>>

\* the refresh failed: return err, the mutex still held
SWA_UnlockErr_NoUnlock(p) ==
    /\ pc[p] = "swa_l71"
    /\ pc' = [pc EXCEPT ![p] = "returned"]
    /\ ret' = [ret EXCEPT ![p] = err[p]]
    /\ UNCHANGED <<Token, tokenExpiresAt, mu, now, ticks, calls, op, hdr, response, err,
                   wire, obs>>

\* the refresh failed: c.Unlock(); return err
SWA_UnlockErr(p) ==
    /\ pc[p] = "swa_l71"
    /\ mu' = 0
    /\ pc' = [pc EXCEPT ![p] = "returned"]
    /\ ret' = [ret EXCEPT ![p] = err[p]]
    /\ UNCHANGED <<Token, tokenExpiresAt, now, ticks, calls, op, hdr, response, err,
                   wire, obs>>

\* what is kept of a call's observations once its business request has left:
\* those of the locked section that decided the refresh are dropped
Sent(o) ==
    [NoObs EXCEPT !.nilAtCheck = o.nilAtCheck, !.refreshes = o.refreshes,
                  !.gatDone = o.gatDone, !.unlocked = o.unlocked,
                  !.tokAtUnlock = o.tokAtUnlock, !.bizSent = o.bizSent + 1]

\* c.Send(req, v) up to c.Client.Do(req): the business request leaves
Send_Issue(p) ==
    /\ pc[p] = "send_l41"
    /\ wire' = wire \cup {[caller |-> p, kind |-> "business", auth |-> hdr[p]]}
    /\ pc' = [pc EXCEPT ![p] = "send_wait"]
    /\ obs' = [obs EXCEPT ![p] = Sent(@)]
    /\ UNCHANGED <<Token, tokenExpiresAt, mu, now, ticks, calls, op, hdr, response,
                   err, ret>>

\* the endpoint method returning what SendWithAuth returned, whatever the id
EndpointResult_NoIdCheck(name, e, v) == e

\* what the endpoint method returns once SendWithAuth returned e with the
\* destination v: ExecuteApprovedAgreement and GetWebProfile turn an empty id
\* into an error of their own, made with errors.New and fmt.Errorf
EndpointResult(name, e, v) ==
    IF name = "ExecuteApprovedAgreement" /\ e = "nil" /\ v.id = 0
    THEN "errors.New"
    ELSE IF name = "GetWebProfile" /\ e = "nil" /\ v.id = 0
    THEN "fmt.Errorf" ELSE e

\* c.Client.Do returned, Send classifies and decodes, the call returns
Send_Complete(p) ==
    /\ pc[p] = "send_wait"
    /\ \E r \in BusinessResponses :
          LET s == Send(r, ZeroDest) IN
          ret' = [ret EXCEPT ![p] = EndpointResult(op[p], s.err, s.v)]
    /\ wire' = {m \in wire : m.caller # p}
    /\ pc' = [pc EXCEPT ![p] = "returned"]
    /\ UNCHANGED <<Token, tokenExpiresAt, mu, now, ticks, calls, op, hdr, response,
                   err, obs>>

\* ---------------------------------------------------------- GetAccessToken
\* the application calls the public c.GetAccessToken(ctx) itself
StartGetAccessToken(p) == Enter(p, "GetAccessToken", "gat_l150", NoAuth)

\* GetAccessToken builds the token request, SendWithBasicAuth sets the basic
\* auth credentials and Send hands it to c.Client.Do: POST /v1/oauth2/token leaves
GAT_Issue(p) ==
    /\ pc[p] = "gat_l150"
    /\ wire' = wire \cup {[caller |-> p, kind |-> "token", auth |-> BasicAuth]}
    /\ response' = [response EXCEPT ![p] = ZeroDest]
    /\ pc' = [pc EXCEPT ![p] = "gat_wait"]
    /\ obs' = [obs EXCEPT ![p].refreshes = @ + 1,
                          ![p].preToken = Token,
                          ![p].preExpires = tokenExpiresAt]
    /\ UNCHANGED <<Token, tokenExpiresAt, mu, now, ticks, calls, op, hdr, err, ret>>

\* c.Client.Do returned; Send classifies the response and decodes it into
\* `response`; err = c.SendWithBasicAuth(req, response)
GAT_Complete(p) ==
    /\ pc[p] = "gat_wait"
    /\ \E r \in TokenResponses :
          LET s == Send(r, response[p]) IN
          /\ response' = [response EXCEPT ![p] = s.v]
          /\ err' = [err EXCEPT ![p] = s.err]
          /\ obs' = [obs EXCEPT ![p].gatErr = s.err, ![p].gatToken = s.v.Token]
    /\ wire' = {m \in wire : m.caller # p}
    /\ pc' = [pc EXCEPT ![p] = "gat_l153"]
    /\ UNCHANGED <<Token, tokenExpiresAt, mu, now, ticks, calls, op, hdr, ret>>

\* the refresh's error dropped by SendWithAuth
GAT_Return_IgnoreErr(p, expiresAt) ==
    /\ pc' = [pc EXCEPT ![p] = IF op[p] = "GetAccessToken" THEN "returned" ELSE "swa_l76"]
    /\ ret' = [ret EXCEPT ![p] = IF op[p] = "GetAccessToken" THEN err[p] ELSE @]
    /\ response' = [response EXCEPT ![p] = ZeroDest]
    /\ obs' = [obs EXCEPT ![p].gatDone = TRUE]

\* return response, err: back in the application for a direct call, back in
\* SendWithAuth at `if ...; err != nil` for a refresh; expiresAt is
\* c.tokenExpiresAt as GetAccessToken leaves it
GAT_Return(p, expiresAt) ==
    /\ pc' = [pc EXCEPT ![p] = IF op[p] = "GetAccessToken" THEN "returned"
                               ELSE IF err[p] # "nil" THEN "swa_l71" ELSE "swa_l76"]
    /\ ret' = [ret EXCEPT ![p] = IF op[p] = "GetAccessToken" THEN err[p] ELSE @]
    /\ response' = [response EXCEPT ![p] = ZeroDest]
    /\ obs' = [q \in Callers |->
                 IF q = p THEN [obs[q] EXCEPT !.gatDone = TRUE]
                 ELSE IF obs[q].behind = p /\ ~obs[q].behindDone /\ op[p] # "GetAccessToken"
                      THEN [obs[q] EXCEPT !.behindDone = TRUE,
                                          !.behindOk = (err[p] = "nil" /\ response[p].Token # 0),
                                          !.behindExp = expiresAt]
                      ELSE obs[q]]

\* GetAccessToken storing the decoded response only when no error is returned
GAT_StoreToken_OnlyOnSuccess(p) ==
    /\ pc[p] = "gat_l153"
    /\ IF response[p].Token # 0 /\ err[p] = "nil"
       THEN /\ Token' = Ptr(response[p])
            /\ pc' = [pc EXCEPT ![p] = "gat_l155"]
            /\ UNCHANGED <<ret, obs, response>>
       ELSE /\ Token' = Token
            /\ GAT_Return(p, tokenExpiresAt)
    /\ UNCHANGED <<tokenExpiresAt, mu, now, ticks, calls, op, hdr, err, wire>>

\* if response.Token != "" { c.Token = response
GAT_StoreToken(p) ==
    /\ pc[p] = "gat_l153"
    /\ IF response[p].Token # 0
       THEN /\ Token' = Ptr(response[p])
            /\ pc' = [pc EXCEPT ![p] = "gat_l155"]
            /\ UNCHANGED <<ret, obs, response>>
       ELSE /\ Token' = Token
            /\ GAT_Return(p, tokenExpiresAt)
    /\ UNCHANGED <<tokenExpiresAt, mu, now, ticks, calls, op, hdr, err, wire>>

\* the expiry set to the instant of storing, the lifetime left out
GAT_StoreExpiry_NoLifetime(p) ==
    /\ pc[p] = "gat_l155"
    /\ tokenExpiresAt' = now
    /\ GAT_Return(p, now)
    /\ UNCHANGED <<Token, mu, now, ticks, calls, op, hdr, err, wire>>

\* c.tokenExpiresAt = time.Now().Add(time.Duration(response.ExpiresIn) * time.Second) }
GAT_StoreExpiry(p) ==
    /\ pc[p] = "gat_l155"
    /\ tokenExpiresAt' = now + response[p].ExpiresIn
    /\ GAT_Return(p, now + response[p].ExpiresIn)
    /\ UNCHANGED <<Token, mu, now, ticks, calls, op, hdr, err, wire>>

\* ------------------------------------------------ ExecuteApprovedAgreement
\* the request is built and req.SetBasicAuth(c.ClientID, c.Secret) is done
StartExecuteApprovedAgreement(p) ==
    Enter(p, "ExecuteApprovedAgreement", "eaa_l364", BasicAuth)

\* req.Header.Set("Authorization", "Bearer "+c.Token.Token), then
\* c.SendWithAuth(req, response); c.Token nil is a nil pointer dereference,
\* which panics out of the call
EAA_SetHeader(p) ==
    /\ pc[p] = "eaa_l364"
    /\ IF Token.nil
       THEN /\ pc' = [pc EXCEPT ![p] = "returned"]
            /\ ret' = [ret EXCEPT ![p] = "panic"]
            /\ hdr' = hdr
       ELSE /\ pc' = [pc EXCEPT ![p] = "swa_l63"]
            /\ hdr' = [hdr EXCEPT ![p] = Bearer(Token.Token)]
            /\ ret' = ret
    /\ UNCHANGED <<Token, tokenExpiresAt, mu, now, ticks, calls, op, response, err,
                   wire, obs>>

\* ------------------------------------------------------------- the program
\* the public method has returned to the application, whose goroutine drops
\* the request and the results and is free for its next call
Return(p) ==
    /\ pc[p] = "returned"
    /\ pc' = [pc EXCEPT ![p] = "idle"]
    /\ op' = [op EXCEPT ![p] = "none"]
    /\ hdr' = [hdr EXCEPT ![p] = NoAuth]
    /\ err' = [err EXCEPT ![p] = "nil"]
    /\ ret' = [ret EXCEPT ![p] = "none"]
    /\ obs' = [obs EXCEPT ![p] = NoObs]
    /\ UNCHANGED <<Token, tokenExpiresAt, mu, now, ticks, calls, response, wire>>

\* no goroutine is inside a call
Quiescent == \A q \in Callers : pc[q] \in {"idle", "returned"}

\* no goroutine is inside a direct GetAccessToken call
NoDirectGetAccessToken ==
    \A q \in Callers : op[q] = "GetAccessToken" => pc[q] \in {"idle", "returned"}

\* the steps a goroutine takes once inside a call
Step(p) ==
    \/ SWA_Lock(p)
    \/ SWA_CheckToken(p)
    \/ SWA_CheckExpiry(p)
    \/ SWA_SetHeader(p)
    \/ SWA_Unlock(p)
    \/ SWA_UnlockErr(p)
    \/ Send_Issue(p)
    \/ Send_Complete(p)
    \/ GAT_Issue(p)
    \/ GAT_Complete(p)
    \/ GAT_StoreToken(p)
    \/ GAT_StoreExpiry(p)
    \/ EAA_SetHeader(p)
    \/ Return(p)

\* The application obtains its token with GetAccessToken while no other call
\* runs on the client (at start-up, or between batches of calls) and then
\* issues authenticated calls concurrently.
Next ==
    \/ \E p \in Callers :
          Quiescent /\ StartGetAccessToken(p) /\ UNCHANGED <<sendVars, cacheVars>>
    \/ \E p \in Callers :
          NoDirectGetAccessToken /\ StartSendWithAuth(p)
          /\ UNCHANGED <<sendVars, cacheVars>>
    \/ \E p \in Callers :
          NoDirectGetAccessToken /\ StartExecuteApprovedAgreement(p)
          /\ UNCHANGED <<sendVars, cacheVars>>
    \/ \E p \in Callers : Step(p) /\ UNCHANGED <<sendVars, cacheVars>>
    \/ \E d \in TickSteps : Tick(d) /\ UNCHANGED <<sendVars, cacheVars>>

Spec == Init /\ [][Next]_vars

\* a step of goroutine p other than c.Lock()
Proceed(p) == Step(p) /\ pc[p] # "swa_l63" /\ UNCHANGED <<sendVars, cacheVars>>

\* c.Lock() of goroutine p
Acquire(p) == SWA_Lock(p) /\ UNCHANGED <<sendVars, cacheVars>>

\* The scheduler runs every goroutine that can take a step, every HTTP
\* exchange under way completes, and sync.Mutex hands the mutex to a goroutine
\* that keeps waiting for it (its starvation mode); the clock and the
\* application's new calls are under no obligation.
Fairness == \A p \in Callers : WF_vars(Proceed(p)) /\ SF_vars(Acquire(p))

SpecLive == Init /\ [][Next]_vars /\ Fairness

\* The application calls every public method, GetAccessToken included, from
\* any goroutine at any time.
NextRace ==
    \/ \E p \in Callers : StartGetAccessToken(p) /\ UNCHANGED <<sendVars, cacheVars>>
    \/ \E p \in Callers : StartSendWithAuth(p) /\ UNCHANGED <<sendVars, cacheVars>>
    \/ \E p \in Callers :
          StartExecuteApprovedAgreement(p) /\ UNCHANGED <<sendVars, cacheVars>>
    \/ \E p \in Callers : Step(p) /\ UNCHANGED <<sendVars, cacheVars>>
    \/ \E d \in TickSteps : Tick(d) /\ UNCHANGED <<sendVars, cacheVars>>

SpecRace == Init /\ [][NextRace]_vars

\* --------------------------------------------------------- endpoint methods
\* the endpoint methods that take a requestID for the PayPal-Request-Id header
RequestIdEndpoints ==
    {"CaptureAuthorizationWithPaypalRequestId", "CaptureOrderWithPaypalRequestId",
     "CreateOrderWithPaypalRequestID"}

\* the endpoint methods stepped through here
Endpoints == RequestIdEndpoints \cup {"ExecuteApprovedAgreement", "GetWebProfile"}

\* ------------------------------------------------------------ the transport
\* a caller enters a method of the transport with a request and a destination
EnterTransport(name, at, rq, d) ==
    /\ spc = "idle"
    /\ sends < MaxSends
    /\ sends' = sends + 1
    /\ sop' = name
    /\ spc' = at
    /\ sreq' = rq
    /\ sdest' = d
    /\ sresp' = NoResponse
    /\ sret' = NilError
    /\ sobs' = [NoSObs EXCEPT !.callerPrefer = rq.prefer, !.callerAuth = rq.auth,
                           !.destBefore = d]
    /\ UNCHANGED returnRepresentation

\* c.Send(req, v)
StartSend(rq, d) ==
    /\ EnterTransport("Send", "send_l30", rq, d)
    /\ UNCHANGED <<authVars, cacheVars>>

\* c.SendWithBasicAuth(req, v)
StartSendWithBasicAuth(rq, d) ==
    /\ EnterTransport("SendWithBasicAuth", "swba_l14", rq, d)
    /\ UNCHANGED <<authVars, cacheVars>>

\* the Authorization header made from the stored token
SWBA_SetBasicAuth_Bearer ==
    /\ spc = "swba_l14"
    /\ sreq' = [sreq EXCEPT !.auth = Bearer(Token.Token)]
    /\ spc' = "send_l30"
    /\ UNCHANGED <<returnRepresentation, sop, sdest, sresp, sret, sends, sobs>>
    /\ UNCHANGED <<Token, tokenExpiresAt, mu, now, ticks, calls, pc, op, hdr,
                   response, err, ret, wire, obs>>
    /\ UNCHANGED cacheVars

\* req.SetBasicAuth(c.ClientID, c.Secret), then return c.Send(req, v)
SWBA_SetBasicAuth ==
    /\ spc = "swba_l14"
    /\ sreq' = [sreq EXCEPT !.auth = BasicAuth]
    /\ spc' = "send_l30"
    /\ UNCHANGED <<returnRepresentation, sop, sdest, sresp, sret, sends, sobs>>
    /\ UNCHANGED <<Token, tokenExpiresAt, mu, now, ticks, calls, pc, op, hdr,
                   response, err, ret, wire, obs>>
    /\ UNCHANGED cacheVars

\* the Prefer header added whatever the flag says
Send_SetHeaders_Always ==
    /\ spc = "send_l30"
    /\ sreq' = [sreq EXCEPT !.prefer = TRUE]
    /\ sobs' = [sobs EXCEPT !.flagAtHeaders = returnRepresentation]
    /\ spc' = "send_l41"
    /\ UNCHANGED <<returnRepresentation, sop, sdest, sresp, sret, sends>>
    /\ UNCHANGED <<authVars, cacheVars>>

\* Send sets its default headers; if c.returnRepresentation {
\* req.Header.Set("Prefer", "return=representation") }
Send_SetHeaders ==
    /\ spc = "send_l30"
    /\ sreq' = [sreq EXCEPT !.prefer = @ \/ returnRepresentation]
    /\ sobs' = [sobs EXCEPT !.flagAtHeaders = returnRepresentation]
    /\ spc' = "send_l41"
    /\ UNCHANGED <<returnRepresentation, sop, sdest, sresp, sret, sends>>
    /\ UNCHANGED <<authVars, cacheVars>>

\* resp, err = c.Client.Do(req): the exchange, with whatever outcome
Send_Do ==
    /\ spc = "send_l41"
    /\ \E r \in TransportResponses : sresp' = r
    /\ sobs' = [sobs EXCEPT !.doCount = @ + 1, !.sent = sreq,
                            !.flagAtDo = returnRepresentation]
    /\ spc' = "send_l44"
    /\ UNCHANGED <<returnRepresentation, sop, sreq, sdest, sret, sends>>
    /\ UNCHANGED <<authVars, cacheVars>>

\* the rest of Send: the error check, the deferred Close, the status check,
\* the destination; Send returns to its caller, an endpoint method or the
\* application
Send_Return ==
    /\ spc = "send_l44"
    /\ LET s == SendTo(sresp, sdest) IN
          /\ sret' = [err |-> s.err, e |-> s.e]
          /\ sdest' = s.d
          /\ sobs' = [sobs EXCEPT !.read = s.read, !.closed = @ + BodyCloses(sresp)]
    /\ spc' = IF sop \in Endpoints THEN "ep_result" ELSE "returned"
    /\ UNCHANGED <<returnRepresentation, sop, sreq, sresp, sends>>
    /\ UNCHANGED <<authVars, cacheVars>>

\* the caller has its result, or has recovered from the panic of the endpoint
\* method, and is free for its next call
TransportReturned ==
    /\ spc \in {"returned", "panicked"}
    /\ spc' = "idle"
    /\ sop' = "none"
    /\ sreq' = NoRequest
    /\ sdest' = NoDest
    /\ sresp' = NoResponse
    /\ sret' = NilError
    /\ sobs' = NoSObs
    /\ UNCHANGED <<returnRepresentation, sends>>
    /\ UNCHANGED <<authVars, cacheVars>>

\* c.SetReturnRepresentation(), called by CaptureOrderWithPaypalRequestId on
\* any goroutine: c.returnRepresentation = true, without the mutex
SetReturnRepresentation ==
    /\ returnRepresentation = FALSE
    /\ returnRepresentation' = TRUE
    /\ UNCHANGED <<spc, sop, sreq, sdest, sresp, sret, sends, sobs>>
    /\ UNCHANGED <<authVars, cacheVars>>

\* a struct destination as an endpoint method allocates it
StructDest == [kind |-> "struct", val |-> ZeroDest, written |-> NoValue]

\* the PayPal-Request-Id header made up when the caller gave no requestID
RequestIdHeader_Generated(requestID) == IF requestID = 0 THEN 1 ELSE requestID

\* if requestID != "" { req.Header.Set("PayPal-Request-Id", requestID) }: the
\* header of the request afterwards, 0 for none
RequestIdHeader(requestID) == requestID

\* An endpoint method up to its call of c.SendWithAuth: it builds the request,
\* allocates the destination and sets the headers of its own.  The three
\* methods with a requestID set PayPal-Request-Id (CaptureAuthorization,
\* CaptureOrder and CreateOrder call them with ""); CaptureOrder makes the
\* client verbose first; ExecuteApprovedAgreement sets the bearer header
\* from c.Token itself, which panics when c.Token is nil.  Taken on a client
\* that holds no token or a token SendWithAuth will not refresh.
StartEndpoint(name, requestID) ==
    /\ Token.nil \/ ~NeedsRefresh(tokenExpiresAt, now)
    /\ name \in RequestIdEndpoints \/ requestID = 0
    /\ spc = "idle"
    /\ sends < MaxSends
    /\ sends' = sends + 1
    /\ sop' = name
    /\ sdest' = StructDest
    /\ sresp' = NoResponse
    /\ sobs' = [NoSObs EXCEPT !.requestID = requestID, !.destBefore = StructDest]
    /\ returnRepresentation' =
          IF name = "CaptureOrderWithPaypalRequestId" THEN TRUE
          ELSE returnRepresentation
    /\ IF name = "ExecuteApprovedAgreement" /\ Token.nil
       THEN /\ sreq' = [NoRequest EXCEPT !.auth = BasicAuth]
            /\ sret' = [err |-> "panic", e |-> NoValue]
            /\ spc' = "panicked"
       ELSE /\ sreq' = [prefer |-> FALSE,
                        auth |-> IF name = "ExecuteApprovedAgreement"
                                 THEN Bearer(Token.Token) ELSE NoAuth,
                        requestId |-> IF name \in RequestIdEndpoints
                                      THEN RequestIdHeader(requestID) ELSE 0]
            /\ sret' = NilError
            /\ spc' = "swa_l63"
    /\ UNCHANGED <<authVars, cacheVars>>

\* SendWithAuth as this one goroutine goes through it without a refresh:
\* c.Lock(), the two checks, the bearer header when a token is held,
\* c.Unlock(), and on into c.Send(req, v)
EP_SendWithAuth ==
    /\ spc = "swa_l63"
    /\ mu = 0
    /\ Token.nil \/ ~NeedsRefresh(tokenExpiresAt, now)
    /\ sreq' = [sreq EXCEPT !.auth = IF Token.nil THEN @ ELSE Bearer(Token.Token)]
    /\ spc' = "send_l30"
    /\ UNCHANGED <<returnRepresentation, sop, sdest, sresp, sret, sends, sobs>>
    /\ UNCHANGED <<authVars, cacheVars>>

\* SendWithAuth returned to the endpoint method, which returns in its turn
EP_Return ==
    /\ spc = "ep_result"
    /\ sret' = [sret EXCEPT !.err = EndpointResult(sop, sret.err, sdest.val)]
    /\ spc' = "returned"
    /\ UNCHANGED <<returnRepresentation, sop, sreq, sdest, sresp, sends, sobs>>
    /\ UNCHANGED <<authVars, cacheVars>>

\* Callers use the transport directly or through an endpoint method, one
\* call at a time, while another goroutine may make the client verbose.
NextSend ==
    \/ \E rq \in Requests, d \in Dests : StartSend(rq, d)
    \/ \E rq \in Requests, d \in Dests : StartSendWithBasicAuth(rq, d)
    \/ \E name \in Endpoints, requestID \in RequestIDs : StartEndpoint(name, requestID)
    \/ SWBA_SetBasicAuth
    \/ EP_SendWithAuth
    \/ Send_SetHeaders
    \/ Send_Do
    \/ Send_Return
    \/ EP_Return
    \/ TransportReturned
    \/ SetReturnRepresentation

SpecSend == Init /\ [][NextSend]_vars

\* ------------------------------------------------------------- newPayPal
\* no client: the nil *PayPalClient
NoClient == [nil |-> TRUE, ClientID |-> 0, Secret |-> 0, APIBase |-> 0]

\* how a newPayPal call ended: "none" not yet, "fatal" log.Fatalln ended the
\* process, "panic" a run-time panic left the call, "client" it returned
NoResult == [how |-> "none", client |-> NoClient]

\* the validation without APIBase
MissingField_NoAPIBase(c) == c.ClientID = 0 \/ c.SecretID = 0

\* config.ClientID == "" || config.SecretID == "" || config.APIBase == ""
MissingField(c) == c.ClientID = 0 \/ c.SecretID = 0 \/ c.APIBase = 0

\* newPayPal(config)
StartNewPayPal(c) ==
    /\ npc = "idle"
    /\ news < MaxNews
    /\ news' = news + 1
    /\ config' = c
    /\ nret' = NoResult
    /\ npc' = "new_l110"
    /\ UNCHANGED <<payPalClientSessionMapping, results>>
    /\ UNCHANGED <<authVars, sendVars>>

\* the validation: log.Fatalln prints and calls os.Exit(1), which ends the
\* process there and then
New_Validate ==
    /\ npc = "new_l110"
    /\ IF MissingField(config)
       THEN /\ npc' = "exited"
            /\ nret' = [how |-> "fatal", client |-> NoClient]
            /\ results' = Append(results, [config |-> config, how |-> "fatal",
                                            client |-> NoClient])
       ELSE /\ npc' = "new_l115"
            /\ UNCHANGED <<nret, results>>
    /\ UNCHANGED <<payPalClientSessionMapping, config, news>>
    /\ UNCHANGED <<authVars, sendVars>>

\* the fingerprint, the lookup and what follows it.  A fingerprint found
\* returns the cached client.  One not found leaves currentPayPalSession nil,
\* and the first statement of the branch, currentPayPalSession.Client =
\* &http.Client{}, dereferences it: the call panics before anything is
\* stored in the cache.
New_Lookup ==
    /\ npc = "new_l115"
    /\ LET key == Fingerprint(config)
           r == IF key \in DOMAIN payPalClientSessionMapping
                THEN [how |-> "client", client |-> payPalClientSessionMapping[key]]
                ELSE [how |-> "panic", client |-> NoClient]
       IN  /\ nret' = r
           /\ results' = Append(results, [config |-> config, how |-> r.how,
                                           client |-> r.client])
    /\ npc' = "returned"
    /\ UNCHANGED <<payPalClientSessionMapping, config, news>>
    /\ UNCHANGED <<authVars, sendVars>>

\* the call is over (its panic recovered by the caller, if it panicked) and
\* the goroutine is free for its next call
NewReturned ==
    /\ npc = "returned"
    /\ npc' = "idle"
    /\ config' = NoConfig
    /\ nret' = NoResult
    /\ UNCHANGED <<payPalClientSessionMapping, news, results>>
    /\ UNCHANGED <<authVars, sendVars>>

\* The application constructs its clients, one newPayPal call at a time.
NextNew ==
    \/ \E c \in Configs : StartNewPayPal(c)
    \/ New_Validate
    \/ New_Lookup
    \/ NewReturned

SpecNew == Init /\ [][NextNew]_vars

\* ----------------------------------------------------------------- typing
TypeOK ==
    /\ mu \in 0..NCallers
    /\ now >= StartTime
    /\ \A m \in wire : m.caller \in Callers /\ m.kind \in {"token", "business"}

\* ------------------------------------------------------------ the claims
\* goroutine p has a request of the given kind in flight
InFlight(p, kind) == \E m \in wire : m.caller = p /\ m.kind = kind

\* the remaining lifetime line 68 read was below the threshold
NearAtCheck(p) == obs[p].checked /\ obs[p].rem < RequestNewTokenBeforeExpiresIn

\* the refresh of p's call has returned an error
RefreshFailed(p) ==
    op[p] # "GetAccessToken" /\ obs[p].gatDone /\ obs[p].gatErr # "nil"

\* C1: the business HTTP exchange of a SendWithAuth call is never under way
\* while the calling goroutine holds the client's mutex.
C1_SendOutsideLock ==
    \A p \in Callers :
        (pc[p] \in {"send_l41", "send_wait"} \/ InFlight(p, "business")) => mu # p

\* C1 witness: the business requests of two callers are in flight together.
C1_TwoInFlight ==
    \E p, q \in Callers : p # q /\ InFlight(p, "business") /\ InFlight(q, "business")

C3_NearExpiryRefreshesOnce ==
    \A p \in Callers :
        /\ NearAtCheck(p) =>
              /\ obs[p].refreshes = IF pc[p] = "gat_l150" THEN 0 ELSE 1
              /\ pc[p] = "send_l41" => obs[p].gatDone /\ ~InFlight(p, "token")
        /\ InFlight(p, "business") =>
              /\ ~InFlight(p, "token")
              /\ obs[p].refreshes <= 1
              /\ obs[p].refreshes = 1 => obs[p].gatDone

\* C3 witness: a call that found less than 60 seconds left has refreshed once
\* and is about to send its business request.
C3_RefreshedThenSends ==
    \E p \in Callers :
        /\ pc[p] = "send_l41"
        /\ NearAtCheck(p)
        /\ obs[p].refreshes = 1
        /\ obs[p].gatDone

\* C4: no step of a SendWithAuth call that found a token with more than 60
\* seconds left issues a token request or changes Token or tokenExpiresAt.
C4_FreshTokenNoRefresh ==
    [][\A p \in Callers :
          ( /\ obs[p].checked
            /\ obs[p].rem > RequestNewTokenBeforeExpiresIn
            /\ pc'[p] # pc[p] )
          => /\ Token' = Token
             /\ tokenExpiresAt' = tokenExpiresAt
             /\ obs'[p].refreshes = 0
             /\ ~(\E m \in wire' : m.caller = p /\ m.kind = "token")]_vars

\* C4 witness: a call that found more than 60 seconds left is about to send
\* its business request and has issued no token request.
C4_FreshThenSends ==
    \E p \in Callers :
        /\ pc[p] = "send_l41"
        /\ obs[p].checked
        /\ obs[p].rem > RequestNewTokenBeforeExpiresIn
        /\ obs[p].refreshes = 0

\* C5 as claimed: when the refresh made inside SendWithAuth returns an error,
\* Token and tokenExpiresAt are what they were before it, and SendWithAuth
\* returns that error.
C5_FailedRefreshKeepsToken ==
    \A p \in Callers :
        /\ pc[p] = "swa_l71" =>
              Token = obs[p].preToken /\ tokenExpiresAt = obs[p].preExpires
        /\ (pc[p] = "returned" /\ RefreshFailed(p)) => ret[p] = obs[p].gatErr

\* C6: a SendWithAuth call whose refresh failed returns the refresh's error,
\* has sent no business request and has issued no second token request.
C6_FailedRefreshNoBusiness ==
    \A p \in Callers :
        RefreshFailed(p) =>
            /\ pc[p] \in {"swa_l71", "returned"}
            /\ obs[p].bizSent = 0
            /\ obs[p].refreshes = 1
            /\ \A m \in wire : m.caller # p
            /\ pc[p] = "returned" => ret[p] = obs[p].gatErr

\* C6 witness: a SendWithAuth call has returned the error of its refresh.
C6_ReturnedRefreshError ==
    \E p \in Callers :
        /\ pc[p] = "returned"
        /\ RefreshFailed(p)
        /\ ret[p] = obs[p].gatErr
        /\ obs[p].bizSent = 0

\* C7 as claimed: a SendWithAuth call that finds no token has requested one
\* and stored it by the time its business request is sent.
C7_NilTokenIsAcquired ==
    \A p \in Callers :
        (obs[p].nilAtCheck /\ InFlight(p, "business")) =>
            obs[p].refreshes >= 1 /\ ~Token.nil

\* C7 amended: a SendWithAuth call that finds no token issues no token
\* request, leaves Token nil and sends its business request without an
\* Authorization header.
C7_NilTokenSendsUnauthenticated ==
    \A p \in Callers :
        obs[p].nilAtCheck =>
            /\ obs[p].refreshes = 0
            /\ hdr[p] = NoAuth
            /\ pc[p] \in {"swa_l81", "send_l41", "send_wait", "returned"}
            /\ pc[p] # "returned" => Token.nil
            /\ \A m \in wire : m.caller = p => m.kind = "business" /\ m.auth = NoAuth

\* C7 witness: the business request of a call that found no token is in
\* flight without an Authorization header.
C7_UnauthenticatedInFlight ==
    \E p \in Callers :
        /\ obs[p].nilAtCheck
        /\ \E m \in wire : m.caller = p /\ m.kind = "business" /\ m.auth = NoAuth

\* C8 as claimed: on a client that never obtained a token, a bearer
\* authenticated operation that has returned did send its request and was
\* not aborted on the client side.
C8_NeverAbortedWithoutToken ==
    \A p \in Callers :
        ( /\ pc[p] = "returned"
          /\ op[p] \in {"SendWithAuth", "ExecuteApprovedAgreement"}
          /\ Token.nil )
        => ret[p] # "panic" /\ obs[p].bizSent = 1

\* the next step of goroutine p reads or writes c.Token or c.tokenExpiresAt
AccessesTokenState(p) ==
    \/ pc[p] \in {"swa_l67", "swa_l68", "swa_l76", "gat_l155", "eaa_l364"}
    \/ pc[p] = "gat_l153" /\ response[p].Token # 0

\* C9 as claimed: every read and write of Token and tokenExpiresAt is made by
\* a goroutine that holds the client's mutex.
C9_TokenStateUnderLock ==
    \A p \in Callers : AccessesTokenState(p) => mu = p

C12_OnlySuccessfulAcquisitionWrites ==
    [][ (Token' # Token \/ tokenExpiresAt' # tokenExpiresAt) =>
            \E p \in Callers :
                /\ pc[p] \in {"gat_l153", "gat_l155"}
                /\ pc'[p] # pc[p]
                /\ err[p] = "nil" ]_vars

\* a status code of the success range
Is2xx(status) == status \in 200..299

\* C13: a Send that has returned returned an ErrorResponse exactly when a
\* response was received whose status is outside 200..299, and for such a
\* response with a well-formed error payload the ErrorResponse carries the
\* payload's name, message and details, and the response.
C13_ErrorResponseIffNon2xx ==
    spc = "returned" =>
        /\ (sret.err = "ErrorResponse") <=> (sresp.kind = "http" /\ ~Is2xx(sresp.status))
        /\ (sret.err = "ErrorResponse" /\ sresp.body.json = "valid") =>
              /\ sret.e.Response = sresp
              /\ sret.e.Name = sresp.body.name
              /\ sret.e.Message = sresp.body.message
              /\ sret.e.Details = sresp.body.details

\* C13 witness: Send has returned the ErrorResponse of a 401 whose payload
\* has a name, a message and one detail.
C13_ErrorPayloadReturned ==
    /\ spc = "returned"
    /\ sresp.kind = "http"
    /\ sresp.status = 401
    /\ sresp.body.json = "valid"
    /\ sret.err = "ErrorResponse"
    /\ sret.e.Name = 1
    /\ sret.e.Message = 1
    /\ sret.e.Details = 1

\* C14: when c.Client.Do returned an error, Send has returned that error as
\* it is, has left the destination as the caller passed it, has read no
\* body and has called c.Client.Do once.
C14_TransportErrorAsIs ==
    (spc = "returned" /\ sresp.kind = "transport") =>
        /\ sret.err = "transport"
        /\ sret.e = sresp
        /\ sdest = sobs.destBefore
        /\ ~sobs.read
        /\ sobs.doCount = 1

\* C14 witness: Send, given a struct to decode into, has returned the error
\* of the transport.
C14_TransportErrorReturned ==
    /\ spc = "returned"
    /\ sresp.kind = "transport"
    /\ sdest.kind = "struct"
    /\ sret.err = "transport"

\* C15 as claimed: on a 2xx response, a nil destination gives nil with the
\* body unread; an io.Writer gives nil with the whole body written to it; a
\* struct gives the decoder's result and error.
C15_ThreeWaysOnSuccess ==
    (spc = "returned" /\ sresp.kind = "http" /\ Is2xx(sresp.status)) =>
        CASE sdest.kind = "nil" ->
                sret = NilError /\ ~sobs.read /\ sdest = sobs.destBefore
          [] sdest.kind = "io.Writer" ->
                sret = NilError /\ sdest.written = [whole |-> TRUE, of |-> sresp.body]
          [] OTHER ->
                LET s == DecodeStream(sresp.body, sobs.destBefore.val) IN
                sret.err = s.err /\ sdest.val = s.v

\* C16 as claimed: the request given to c.Client.Do carries Prefer exactly
\* when c.returnRepresentation is true at that moment.
C16_PreferIffVerbose ==
    sobs.doCount > 0 => (sobs.sent.prefer <=> sobs.flagAtDo)

\* C16 amended: the request given to c.Client.Do carries Prefer exactly when
\* the caller had put it on the request or c.returnRepresentation was true
\* when Send set its headers.
C16_PreferIffVerboseOrCallerSet ==
    /\ spc \in {"send_l41", "send_l44", "returned"} =>
          (sreq.prefer <=> (sobs.callerPrefer \/ sobs.flagAtHeaders))
    /\ sobs.doCount > 0 => sobs.sent = sreq

\* C16 witness: a request that came without Prefer has been sent with it,
\* the client being verbose.
C16_PreferAddedByFlag ==
    /\ sobs.doCount > 0
    /\ ~sobs.callerPrefer
    /\ sobs.flagAtHeaders
    /\ sobs.sent.prefer

\* C17: a SendWithBasicAuth call puts the basic-auth credentials in place of
\* whatever Authorization the request had, goes on into Send and sends the
\* request with them; none of its steps changes the mutex, Token or
\* tokenExpiresAt.
C17_BasicAuthOnly ==
    /\ []((sop = "SendWithBasicAuth" /\ spc # "swba_l14") =>
             /\ sreq.auth = BasicAuth
             /\ sobs.doCount > 0 => sobs.sent.auth = BasicAuth)
    /\ [][(sop = "SendWithBasicAuth" /\ spc' # spc) =>
             /\ mu' = mu
             /\ Token' = Token
             /\ tokenExpiresAt' = tokenExpiresAt
             /\ spc = "swba_l14" => spc' = "send_l30"]_vars

\* C17 witness: a request that came with a bearer token has been sent by
\* SendWithBasicAuth with the basic-auth credentials.
C17_BasicAuthSent ==
    /\ sop = "SendWithBasicAuth"
    /\ sobs.callerAuth = Bearer(1)
    /\ sobs.doCount = 1
    /\ sobs.sent.auth = BasicAuth

\* a configuration with an empty ClientID, SecretID or APIBase
HasEmptyField(c) == c.ClientID = 0 \/ c.SecretID = 0 \/ c.APIBase = 0

\* the i-th newPayPal call was the first to pass its configuration
FirstUse(i) == \A j \in 1..(i - 1) : results[j].config # results[i].config

\* C18 as claimed: a newPayPal call that is the first with its (complete)
\* configuration returns a non-nil client with the configuration's ClientID,
\* Secret and APIBase, and the cache holds that client under the
\* configuration's fingerprint.
C18_FirstUseConstructs ==
    \A i \in 1..Len(results) :
        (~HasEmptyField(results[i].config) /\ FirstUse(i)) =>
            /\ results[i].how = "client"
            /\ ~results[i].client.nil
            /\ results[i].client.ClientID = results[i].config.ClientID
            /\ results[i].client.Secret = results[i].config.SecretID
            /\ results[i].client.APIBase = results[i].config.APIBase
            /\ Fingerprint(results[i].config) \in DOMAIN payPalClientSessionMapping
            /\ payPalClientSessionMapping[Fingerprint(results[i].config)]
                  = results[i].client

\* C19 as claimed: any two newPayPal calls with complete configurations have
\* both returned a client, the same one exactly when the configurations are
\* equal.
C19_OneClientPerFingerprint ==
    \A i, j \in 1..Len(results) :
        (i < j /\ ~HasEmptyField(results[i].config)
               /\ ~HasEmptyField(results[j].config)) =>
            /\ results[i].how = "client"
            /\ results[j].how = "client"
            /\ (results[i].config = results[j].config)
                  <=> (results[i].client = results[j].client)

\* C20: a newPayPal call whose configuration has an empty field never gets
\* past the validation: it ends the process with a fatal error, returns no
\* client, leaves no entry under the configuration's fingerprint, and the
\* process takes no step after it.
C20_MissingFieldIsFatal ==
    /\ []( /\ npc \in {"new_l115", "returned"} => ~HasEmptyField(config)
           /\ npc = "exited" =>
                 /\ HasEmptyField(config)
                 /\ nret = [how |-> "fatal", client |-> NoClient]
                 /\ Fingerprint(config) \notin DOMAIN payPalClientSessionMapping
           /\ \A i \in 1..Len(results) :
                 HasEmptyField(results[i].config) =>
                     /\ results[i].how = "fatal"
                     /\ results[i].client.nil
                     /\ i = Len(results)
                     /\ npc = "exited" )
    /\ [][npc # "exited"]_vars

\* C20 witness: a newPayPal call with a ClientID and a SecretID but an empty
\* APIBase has ended the process.
C20_FatalOnEmptyAPIBase ==
    /\ npc = "exited"
    /\ config = [ClientID |-> 1, SecretID |-> 1, APIBase |-> 0]
    /\ nret.how = "fatal"
    /\ payPalClientSessionMapping = <<>>

\* C21: a request an endpoint method sends carries the header
\* PayPal-Request-Id with exactly the caller's requestID when that is not
\* empty, and no such header when it is empty or the method takes none: the
\* library never makes up a key.
C21_RequestIdIsCallers ==
    spc # "idle" =>
        /\ sreq.requestId = sobs.requestID
        /\ sobs.doCount > 0 => sobs.sent.requestId = sobs.requestID

\* C21 witness: CaptureOrderWithPaypalRequestId has sent its request with the
\* caller's key.
C21_KeySent ==
    /\ sop = "CaptureOrderWithPaypalRequestId"
    /\ sobs.doCount > 0
    /\ sobs.requestID = 2
    /\ sobs.sent.requestId = 2

\* ExecuteApprovedAgreement or GetWebProfile has returned after an exchange
\* that was answered with a status in 200..299
ReturnedAfter2xx ==
    /\ sop \in {"ExecuteApprovedAgreement", "GetWebProfile"}
    /\ spc = "returned"
    /\ sobs.doCount > 0
    /\ sresp.kind = "http"
    /\ Is2xx(sresp.status)

\* C22 as claimed: after a 2xx exchange ExecuteApprovedAgreement and
\* GetWebProfile return an error that is neither nil, nor an ErrorResponse,
\* nor a transport error when the decoded identifier is empty, and a nil
\* error when it is not empty.
C22_ErrorIffEmptyId ==
    ReturnedAfter2xx =>
        /\ sdest.val.id = 0 => sret.err \notin {"nil", "ErrorResponse", "transport"}
        /\ sdest.val.id # 0 => sret.err = "nil"

\* C22 amended: after a 2xx exchange whose body was decoded without error
\* the two methods return an error of their own (errors.New, fmt.Errorf) when
\* the decoded identifier is empty and a nil error when it is not; when the
\* decoding failed they return the decoder's error, whatever identifier was
\* decoded before the failure.
C22_ErrorIffEmptyIdOrDecodeError ==
    ReturnedAfter2xx =>
        LET s == SendTo(sresp, sobs.destBefore) IN
          /\ sdest.val = s.d.val
          /\ s.err = "nil" /\ sdest.val.id = 0 =>
                sret.err = IF sop = "GetWebProfile" THEN "fmt.Errorf" ELSE "errors.New"
          /\ s.err = "nil" /\ sdest.val.id # 0 => sret.err = "nil"
          /\ s.err # "nil" =>
                sret.err = s.err /\ sret.err \in {"SyntaxError", "UnmarshalTypeError",
                                                  "io.EOF", "read"}

\* C22 witness: GetWebProfile has returned its own error for a 2xx answer
\* without an identifier.
C22_EmptyIdReported ==
    /\ ReturnedAfter2xx
    /\ sop = "GetWebProfile"
    /\ sresp.body.json = "valid"
    /\ sdest.val.id = 0
    /\ sret.err = "fmt.Errorf"

\* the check of line 68 found the one second of a token stored with
\* expires_in = 1 still whole: the call follows the acquisition immediately
ShortLivedAtCheck(p) == obs[p].checked /\ obs[p].rem = 1

\* C23 as claimed: a SendWithAuth call made immediately after a token with
\* expires_in = 1 was stored, while more than 0 seconds remain, issues no
\* token request.
C23_NoSecondTokenCall ==
    \A p \in Callers :
        ShortLivedAtCheck(p) => pc[p] # "gat_l150" /\ obs[p].refreshes = 0

\* C23 amended: a SendWithAuth call made immediately after a token with
\* expires_in = 1 was stored finds less than 60 seconds left and issues a
\* token request of its own, exactly one, before anything else.
C23_SecondTokenCall ==
    \A p \in Callers :
        ShortLivedAtCheck(p) =>
            \/ pc[p] = "gat_l150" /\ obs[p].refreshes = 0 /\ Token.ExpiresIn = 1
            \/ obs[p].refreshes = 1

\* C23 witness: a call that found the one second of its token whole has its
\* token request in flight.
C23_SecondTokenCallInFlight ==
    \E p \in Callers :
        /\ ShortLivedAtCheck(p)
        /\ op[p] = "SendWithAuth"
        /\ InFlight(p, "token")
        /\ obs[p].preToken.ExpiresIn = 1

\* a call of the transport has returned (to the endpoint method or to the
\* application) after c.Client.Do gave it a response
SendReturnedWithResponse ==
    /\ spc \in {"ep_result", "returned"}
    /\ sobs.doCount > 0
    /\ sresp.kind = "http"

\* C24: the body of every response Send obtains is closed exactly once by the
\* time Send returns, whatever the exit path, and not before the deferred
\* call runs; without a response nothing is closed.
C24_BodyClosedOnce ==
    /\ SendReturnedWithResponse => sobs.closed = 1
    /\ spc \in {"ep_result", "returned"} /\ sresp.kind = "transport" => sobs.closed = 0
    /\ spc \notin {"ep_result", "returned"} => sobs.closed = 0

\* C24 witness: Send has returned the decoder's error for a 2xx response and
\* has closed the body once.
C24_ClosedAfterFailedDecode ==
    /\ SendReturnedWithResponse
    /\ Is2xx(sresp.status)
    /\ sret.err = "SyntaxError"
    /\ sobs.closed = 1

\* C25: for a response outside 200..299 whose body is empty, unreadable or
\* not valid JSON, Send returns an ErrorResponse that refers to the response,
\* with name, message and details as far as they were parsed (not at all, or
\* the fields before a field of the wrong type); the failure to read or
\* parse the body is never what Send returns.
C25_ErrorResponseDespiteBody ==
    ( /\ SendReturnedWithResponse
      /\ sop \notin Endpoints \/ spc = "ep_result"
      /\ ~Is2xx(sresp.status)
      /\ sresp.body.json # "valid" )
    => /\ sret.err = "ErrorResponse"
       /\ sret.e.Response = sresp
       /\ sresp.body.json \in {"empty", "unreadable", "syntax"} =>
             sret.e.Name = 0 /\ sret.e.Message = 0 /\ sret.e.Details = 0
       /\ sresp.body.json = "mismatch" =>
             sret.e.Name = sresp.body.name /\ sret.e.Message = sresp.body.message

\* C25 witness: Send has returned an ErrorResponse with empty fields for a
\* 401 whose body could not be read.
C25_UnreadableErrorBody ==
    /\ SendReturnedWithResponse
    /\ sresp.status = 401
    /\ sresp.body.json = "unreadable"
    /\ sret.err = "ErrorResponse"
    /\ sret.e.Response = sresp
    /\ sret.e.Name = 0

\* goroutine p is between c.Lock() and c.Unlock() of SendWithAuth, the
\* refresh through GetAccessToken included
LockedSection(p) ==
    /\ op[p] \in {"SendWithAuth", "ExecuteApprovedAgreement"}
    /\ pc[p] \in {"swa_l67", "swa_l68", "swa_l71", "swa_l76", "swa_l81",
                  "gat_l150", "gat_wait", "gat_l153", "gat_l155"}

\* goroutine p is in SendWithAuth after its c.Unlock()
AfterUnlock(p) ==
    /\ op[p] \in {"SendWithAuth", "ExecuteApprovedAgreement"}
    /\ pc[p] \in {"send_l41", "send_wait", "returned"}

\* C26: on every path through SendWithAuth the mutex is held by the calling
\* goroutine exactly from its c.Lock() to its one c.Unlock(): the mutex
\* changes hands only by a Lock of a free mutex at line 63 or by an Unlock of
\* its holder at line 71 or 81, a call never returns or sends holding it,
\* never unlocks a mutex it does not hold, and never comes to c.Lock() again
\* once it has locked, the refresh included.
C26_MutexDiscipline ==
    /\ [](\A p \in Callers : LockedSection(p) <=> mu = p)
    /\ [][\A p \in Callers :
            /\ (mu' # mu /\ mu' = p) =>
                  mu = 0 /\ pc[p] = "swa_l63" /\ pc'[p] = "swa_l67"
            /\ (mu' # mu /\ mu = p) =>
                  /\ mu' = 0
                  /\ pc[p] \in {"swa_l71", "swa_l81"}
                  /\ AfterUnlock(p)'
            /\ (LockedSection(p) /\ pc'[p] # pc[p]) =>
                  /\ pc'[p] # "swa_l63"
                  /\ LockedSection(p)' \/ (AfterUnlock(p)' /\ mu' = 0)
            /\ (AfterUnlock(p) /\ pc'[p] # pc[p]) =>
                  mu' = mu /\ (AfterUnlock(p)' \/ pc'[p] = "idle")
         ]_vars

\* C26 witness: a call has returned the error of its refresh and another
\* goroutine has taken the mutex it released.
C26_ReleasedAfterFailedRefresh ==
    \E p, q \in Callers :
        /\ p # q
        /\ pc[p] = "returned"
        /\ RefreshFailed(p)
        /\ pc[q] = "swa_l67"
        /\ mu = q

\* C27: under fair scheduling, with every HTTP exchange completing, no
\* interleaving of SendWithAuth calls deadlocks (while a goroutine is inside
\* a call, some goroutine can take a step), and every goroutine that comes
\* to c.Lock() eventually returns from its call, having held the mutex and
\* released it.
C27_EveryCallReturns ==
    /\ []((\E p \in Callers : pc[p] # "idle") =>
            \E p \in Callers : ENABLED Proceed(p) \/ ENABLED Acquire(p))
    /\ \A p \in Callers :
          (pc[p] = "swa_l63") ~>
              (pc[p] = "returned" /\ (obs[p].unlocked \/ RefreshFailed(p)))

\* C27 witness: a goroutine waits at c.Lock() while another holds the mutex
\* with its token request in flight.
C27_WaitsBehindRefresh ==
    \E p, q \in Callers :
        /\ p # q
        /\ pc[p] = "swa_l63"
        /\ mu = q
        /\ pc[q] = "gat_wait"
        /\ InFlight(q, "token")

\* C28: a token stored with expires_in below 60 never passes the check of
\* line 68, so every SendWithAuth call on a client holding such a token
\* issues a token request of its own, exactly one, before its business
\* request; these token requests are issued under the mutex, at most one in
\* flight at a time.
C28_ShortLivedTokenRefreshedByEveryCall ==
    /\ \A p \in Callers :
          /\ (pc[p] = "swa_l76" /\ obs[p].refreshes = 0) =>
                Token.ExpiresIn >= RequestNewTokenBeforeExpiresIn
          /\ ( /\ obs[p].unlocked
               /\ ~obs[p].tokAtUnlock.nil
               /\ obs[p].tokAtUnlock.ExpiresIn < RequestNewTokenBeforeExpiresIn )
             => obs[p].refreshes = 1
          /\ (op[p] # "GetAccessToken" /\ InFlight(p, "token")) => mu = p
    /\ Cardinality({m \in wire : m.kind = "token"}) <= 1

\* C28 witness: two concurrent calls on a client whose tokens live one second
\* have each issued a token request: the first has gone on to its business
\* request, the second has its token request in flight.
C28_TwoCallsTwoTokenRequests ==
    \E p, q \in Callers :
        /\ p # q
        /\ InFlight(p, "business")
        /\ obs[p].refreshes = 1
        /\ obs[p].tokAtUnlock.ExpiresIn = 1
        /\ InFlight(q, "token")
        /\ op[q] = "SendWithAuth"
        /\ obs[q].refreshes = 1
        /\ obs[q].preToken.ExpiresIn = 1

\* the refresh of p's SendWithAuth call has returned and p still holds the
\* mutex: nobody else has touched the token state since
JustRefreshed(p) ==
    /\ op[p] # "GetAccessToken"
    /\ pc[p] \in {"swa_l71", "swa_l76"}
    /\ obs[p].refreshes = 1
    /\ obs[p].gatDone

\* C29: GetAccessToken replaces Token and tokenExpiresAt exactly when the
\* decoded response carries a non-empty access_token, whatever error it
\* returns: with an empty access_token both are as they were before the call,
\* also when the error is nil, and SendWithAuth then sends the business
\* request with the old token; with a non-empty access_token Token is the
\* decoded response, also when the decoding failed and the error is returned.
C29_StoredIffAccessToken ==
    \A p \in Callers :
        /\ JustRefreshed(p) =>
              /\ obs[p].gatToken = 0 =>
                    Token = obs[p].preToken /\ tokenExpiresAt = obs[p].preExpires
              /\ obs[p].gatToken # 0 =>
                    /\ ~Token.nil
                    /\ Token.Token = obs[p].gatToken
                    /\ tokenExpiresAt = now + Token.ExpiresIn
              /\ pc[p] = "swa_l71" <=> obs[p].gatErr # "nil"
        /\ ( /\ pc[p] = "send_l41"
             /\ obs[p].refreshes = 1
             /\ obs[p].gatErr = "nil"
             /\ obs[p].gatToken = 0 )
           => /\ obs[p].tokAtUnlock = obs[p].preToken
              /\ hdr[p] = Bearer(obs[p].preToken.Token)

\* C29 witness: a refresh has returned the decoder's error and has replaced
\* the token with the one decoded before the failure.
C29_StoredDespiteError ==
    \E p \in Callers :
        /\ JustRefreshed(p)
        /\ pc[p] = "swa_l71"
        /\ obs[p].gatErr = "UnmarshalTypeError"
        /\ obs[p].gatToken # 0
        /\ Token.Token = obs[p].gatToken
        /\ Token # obs[p].preToken

\* goroutine q came to c.Lock() while the refresh of another SendWithAuth
\* call was in flight, and that refresh has since returned without both a
\* nil error and a token
BehindFailedRefresh(q) ==
    obs[q].behind # 0 /\ obs[q].behindDone /\ ~obs[q].behindOk

====
